---- MODULE Spec2Model ----
(***************************************************************************)
(* Model of app/token_manager.py: TokenCache.get_tokens, the refresh       *)
(* engine TokenCache._refresh_tokens with its fetch_token threads, and the *)
(* cachetools TTLCache the entries live in.                                *)
(*                                                                         *)
(* Time is counted in hours: one clock serves time.time() (line 73) and    *)
(* the TTLCache timer.  The clock may advance between any two steps of a   *)
(* refresh, because a request has no timeout (session.timeout, line 62, is *)
(* not read by requests) and the launch loop (lines 116-120) waits for as  *)
(* long as its threads stay alive.  Straight-line code without a blocking  *)
(* call is one step.                                                       *)
(*                                                                         *)
(* Two program constants are scaled down so that their boundary is         *)
(* reachable: maxsize (100 in the source) and batch_size (30).             *)
(*                                                                         *)
(* Three specifications share the actions and differ in their inputs:      *)
(*   Spec       several callers, more keys than maxsize, a short time      *)
(*   SpecTime   one caller, more keys than maxsize, time beyond the TTL    *)
(*   SpecBatch  one refresh of more credentials than batch_size            *)
(***************************************************************************)
EXTENDS Integers, Sequences, FiniteSets, TLC

\* ---------------------------------------------------------------- constants
AUTH_URLS == <<"railway", "aditya", "hanif">>
CACHE_DURATION == 7
TOKEN_REFRESH_THRESHOLD == 6
maxsize == 1
batch_size == 2

\* ------------------------------------------------------------------- bounds
NumCallers == 2
MaxCreds == 1
MaxBatchCreds == 3
MaxShortTime == 1
MaxTime == 8
MaxLockCreds == 2

Callers == 1..NumCallers
Keys == {"A", "B"}
BatchKeys == {"A"}
MoreKeys == {"A", "B", "C"}

\* The instants the clock takes: a few consecutive ones while refreshes
\* run, or the first two and those from the refresh threshold on.
ShortInstants == 0..MaxShortTime
Instants == {i \in 0..MaxTime : i <= 1 \/ i >= TOKEN_REFRESH_THRESHOLD}

\* The token an endpoint issues for credential i: its own, i, or token 0,
\* which the endpoints issue for other credentials too.
TokensOf(i) == {0, i}

NoKey == "-"
NoTok == -1
EmptyFcn == [x \in {} |-> 0]


VARIABLES clock, cache, last_refresh, lock, pc, server_key, now, creds,
          thread_pool, all_threads, joined, shared_tokens, token_lock,
          threads, never, prev, returned, outcomes

vars == <<clock, cache, last_refresh, lock, pc, server_key, now, creds,
          thread_pool, all_threads, joined, shared_tokens, token_lock,
          threads, never, prev, returned, outcomes>>

\* ------------------------------------------------------------------ helpers
Range(s) == {s[i] : i \in DOMAIN s}

NoDup(s) == \A i, j \in DOMAIN s : s[i] = s[j] => i = j

Remove(s, x) == SelectSeq(s, LAMBDA y : y # x)

Restrict(f, S) == [x \in S |-> f[x]]

\* ---------------------------------------------------- cachetools.TTLCache
\* A cache value is [data, expires, links, maxsize]: data and expires are
\* functions on the stored keys, links is the order of use, least recently
\* used first, maxsize is the number of entries the cache was built for.
EmptyCache ==
    [data |-> EmptyFcn, expires |-> EmptyFcn, links |-> <<>>,
     maxsize |-> maxsize]

\* The same cache built for one entry more, so that it holds the entries of
\* several keys at a time.
RoomyCache == [EmptyCache EXCEPT !.maxsize = maxsize + 1]

\* TTLCache.__contains__: stored and timer() < link.expires.
TTL_contains(c, k, time) == k \in DOMAIN c.data /\ time < c.expires[k]

\* TTLCache.expire(time): drop every entry with expires <= time.
TTL_expire(c, time) ==
    LET live == {k \in DOMAIN c.data : time < c.expires[k]}
    IN  [data |-> Restrict(c.data, live),
         expires |-> Restrict(c.expires, live),
         links |-> SelectSeq(c.links, LAMBDA k : k \in live),
         maxsize |-> c.maxsize]

\* Mutant: popitem drops the most recently used entry.
TTL_popitem_Newest(c) ==
    LET k == c.links[Len(c.links)]
        rest == DOMAIN c.data \ {k}
    IN  [data |-> Restrict(c.data, rest),
         expires |-> Restrict(c.expires, rest),
         links |-> SubSeq(c.links, 1, Len(c.links) - 1),
         maxsize |-> c.maxsize]

\* TTLCache.popitem after expire: drop the least recently used entry.
TTL_popitem(c) ==
    LET k == Head(c.links)
        rest == DOMAIN c.data \ {k}
    IN  [data |-> Restrict(c.data, rest),
         expires |-> Restrict(c.expires, rest),
         links |-> Tail(c.links),
         maxsize |-> c.maxsize]

\* Cache.__setitem__'s loop: while currsize + 1 > maxsize: popitem().
RECURSIVE TTL_makeroom(_)
TTL_makeroom(c) ==
    IF Len(c.links) + 1 > c.maxsize THEN TTL_makeroom(TTL_popitem(c)) ELSE c

\* TTLCache.__setitem__: expire, make room when the key is new, store, set
\* expires = time + ttl and mark the key most recently used.
TTL_setitem(c, k, v, time) ==
    LET c1 == TTL_expire(c, time)
        c2 == IF k \in DOMAIN c1.data THEN c1 ELSE TTL_makeroom(c1)
    IN  [data |-> (k :> v) @@ c2.data,
         expires |-> (k :> time + CACHE_DURATION) @@ c2.expires,
         links |-> Append(Remove(c2.links, k), k),
         maxsize |-> c.maxsize]

\* Mutant: a hit renews the expiry of the entry.
TTL_get_Renew(c, k, default, time) ==
    IF TTL_contains(c, k, time)
    THEN [value |-> c.data[k],
          cache |-> [c EXCEPT !.links = Append(Remove(c.links, k), k),
                              !.expires[k] = time + CACHE_DURATION]]
    ELSE [value |-> default, cache |-> c]

\* Cache.get(key, default): the value and the cache afterwards (a hit moves
\* the key to the most recently used end).
TTL_get(c, k, default, time) ==
    IF TTL_contains(c, k, time)
    THEN [value |-> c.data[k],
          cache |-> [c EXCEPT !.links = Append(Remove(c.links, k), k)]]
    ELSE [value |-> default, cache |-> c]

\* ------------------------------------------------------------------ threads
\* Mutant: the urls are drawn with replacement (random.choices).
random_sample_WithReplacement == [1..Len(AUTH_URLS) -> Range(AUTH_URLS)]

\* random.sample(AUTH_URLS, len(AUTH_URLS)): the possible results.
random_sample ==
    {s \in [1..Len(AUTH_URLS) -> Range(AUTH_URLS)] :
        \A i, j \in DOMAIN s : s[i] = s[j] => i = j}

\* Thread.is_alive(): a thread that hangs in a request stays alive.
is_alive(th) == th.st # "done"

\* A thread that runs fetch_token: its urls (line 97), the position of the
\* for loop in them, where it stands, the token it has got, the result of
\* the membership test, and the urls it has requested so far.
NewThread(urls) ==
    [urls |-> urls, idx |-> 1, st |-> "run", tok |-> NoTok, present |-> FALSE,
     tried |-> <<>>]

\* ------------------------------------------------------- credential source
\* What the environment variable or the file of a key can hold: nothing,
\* text that is not JSON, a JSON scalar, or a JSON list of up to n
\* credentials (a credential is named by its position).
ConfigSources(n) ==
    {[kind |-> k, users |-> <<>>] : k \in {"missing", "unparseable", "scalar"}}
        \cup {[kind |-> "list", users |-> [i \in 1..m |-> i]] : m \in 0..n}

\* _load_credentials: a missing source and any exception yield [].
_load_credentials(source) ==
    IF source.kind \in {"missing", "unparseable"}
    THEN [kind |-> "list", users |-> <<>>]
    ELSE source

\* The scalar is the one value the for statement of line 115 cannot iterate.
Iterable(c) == c.kind = "list"

\* Mutant: the handler names one exception class only.
Caught_ValueErrorOnly(e) == e = "ValueError"

\* except Exception (line 140) catches every error the try body raises.
Caught(e) == TRUE

\* ---------------------------------------------------------------- get_tokens
\* Mutant: line 77 compares with >= instead of >.
refresh_needed_AtThreshold(c, lr, k, time) ==
    \/ ~TTL_contains(c, k, time)
    \/ k \notin DOMAIN lr
    \/ time - (IF k \in DOMAIN lr THEN lr[k] ELSE 0) >= TOKEN_REFRESH_THRESHOLD

\* Mutant: line 77 compares the wrong way round.
refresh_needed_Reversed(c, lr, k, time) ==
    \/ ~TTL_contains(c, k, time)
    \/ k \notin DOMAIN lr
    \/ time - (IF k \in DOMAIN lr THEN lr[k] ELSE 0) < TOKEN_REFRESH_THRESHOLD

\* Mutant: the test of line 75 is missing.
refresh_needed_NoCacheTest(c, lr, k, time) ==
    \/ k \notin DOMAIN lr
    \/ time - (IF k \in DOMAIN lr THEN lr[k] ELSE 0) > TOKEN_REFRESH_THRESHOLD

\* Lines 74-78.
refresh_needed(c, lr, k, time) ==
    \/ ~TTL_contains(c, k, time)
    \/ k \notin DOMAIN lr
    \/ time - (IF k \in DOMAIN lr THEN lr[k] ELSE 0) > TOKEN_REFRESH_THRESHOLD

\* Mutant: get_tokens does not wait for the lock.
LockFree_NoWait == TRUE

\* with self.lock (line 72) admits a caller when no caller holds the lock.
LockFree == lock = 0

\* Mutant: fetch_token does not wait for token_lock.
TokenLockFree_NoWait(t) == TRUE

\* with token_lock (line 106), of the refresh run by caller t.
TokenLockFree(t) == token_lock[t] = 0

InRefresh(t) == pc[t] \in {"launch", "join"}

\* ------------------------------------------------------------- the record
\* Four variables record what happened; the actions write them and never
\* read them.
\*   never[t]     the key had never been refreshed when caller t made the
\*                call it is in
\*   prev[t]      a non-empty list was cached for the key when the refresh
\*                that caller t runs began
\*   returned     the latest get_tokens call that has returned: its caller
\*                and key, whether it returned a list or raised, the list,
\*                how its refresh ended ("none": no refresh), never[t] and
\*                prev[t] of the call, and what the threads of its refresh
\*                had done when it ended
\*   outcomes[k]  how the refreshes of key k ended: the last one, and
\*                whether all of them yielded a token
NoReturn == [caller |-> 0, key |-> NoKey, kind |-> "none", value |-> <<>>,
             outcome |-> "none", never |-> FALSE, prev |-> FALSE, saw |-> {}]

Saw(ths) ==
    {"failover" : i \in {j \in DOMAIN ths : ths[j].tok # NoTok /\ ths[j].idx > 1}}
    \cup {"exhausted" : i \in {j \in DOMAIN ths :
              ths[j].st = "done" /\ ths[j].tok = NoTok}}
    \cup {"unfinished" : i \in {j \in DOMAIN ths : is_alive(ths[j])}}
    \cup {"same" : i \in {j \in DOMAIN ths : \E l \in DOMAIN ths :
              l # j /\ ths[j].tok # NoTok /\ ths[l].tok = ths[j].tok}}
    \cup {"batches" : i \in {j \in DOMAIN ths : j > batch_size}}

Logged(k, outcome) ==
    (k :> [last |-> outcome,
           clean |-> outcome = "some"
                       /\ (k \in DOMAIN outcomes => outcomes[k].clean)])
        @@ outcomes

\* The state after TokenCache.__init__ (lines 33-37), with the cache c.
InitWith(c) ==
    /\ clock = 0
    /\ cache = c
    /\ last_refresh = EmptyFcn
    /\ lock = 0
    /\ pc = [t \in Callers |-> "idle"]
    /\ server_key = [t \in Callers |-> NoKey]
    /\ now = [t \in Callers |-> 0]
    /\ creds = [t \in Callers |-> <<>>]
    /\ thread_pool = [t \in Callers |-> {}]
    /\ all_threads = [t \in Callers |-> <<>>]
    /\ joined = [t \in Callers |-> 0]
    /\ shared_tokens = [t \in Callers |-> <<>>]
    /\ token_lock = [t \in Callers |-> 0]
    /\ threads = [t \in Callers |-> EmptyFcn]
    /\ never = [t \in Callers |-> FALSE]
    /\ prev = [t \in Callers |-> FALSE]
    /\ returned = NoReturn
    /\ outcomes = EmptyFcn

Init == InitWith(EmptyCache)

\* The clock advances to the next of the instants.
Tick(instants) ==
    /\ \E i \in instants : i > clock
    /\ clock' = CHOOSE i \in instants :
                    i > clock /\ \A j \in instants : j > clock => i <= j
    /\ UNCHANGED <<cache, last_refresh, lock, pc, server_key, now, creds,
                   thread_pool, all_threads, joined, shared_tokens,
                   token_lock, threads, never, prev, returned, outcomes>>

\* A caller enters get_tokens(k) and waits for self.lock (line 72).  A caller
\* calls again only when the threads of its previous refresh have ended.
\* The record of the latest return is kept until the next call is made.
Call(t, k) ==
    /\ pc[t] = "idle"
    /\ threads[t] = EmptyFcn
    /\ pc' = [pc EXCEPT ![t] = "wait"]
    /\ server_key' = [server_key EXCEPT ![t] = k]
    /\ never' = [never EXCEPT ![t] = k \notin DOMAIN last_refresh]
    /\ returned' = NoReturn
    /\ UNCHANGED <<clock, cache, last_refresh, lock, now, creds, thread_pool,
                   all_threads, joined, shared_tokens, token_lock, threads,
                   prev, outcomes>>

\* The threads a refresh leaves behind when it returns: those still working.
\* A thread that hangs in a request never acts again and is dropped.
Working(ths) == {i \in DOMAIN ths : ths[i].st \in {"run", "got", "tested"}}

\* A thread left behind: nothing waits for it any more, and what is left of
\* its fetch_token is taken as one step (Late).
Left(th) ==
    [th EXCEPT !.st = "left", !.idx = 1, !.tok = NoTok, !.present = FALSE,
               !.tried = <<>>]

\* The locals of a get_tokens call that has returned: the shared list lives
\* on while a thread of the refresh is working.
Unwind(t) ==
    LET left == Working(threads[t])
    IN  /\ pc' = [pc EXCEPT ![t] = "idle"]
        /\ server_key' = [server_key EXCEPT ![t] = NoKey]
        /\ now' = [now EXCEPT ![t] = 0]
        /\ never' = [never EXCEPT ![t] = FALSE]
        /\ prev' = [prev EXCEPT ![t] = FALSE]
        /\ creds' = [creds EXCEPT ![t] = <<>>]
        /\ thread_pool' = [thread_pool EXCEPT ![t] = {}]
        /\ all_threads' = [all_threads EXCEPT ![t] = <<>>]
        /\ joined' = [joined EXCEPT ![t] = 0]
        /\ threads' = [threads EXCEPT ![t] = [i \in left |-> Left(threads[t][i])]]
        /\ shared_tokens' = [shared_tokens EXCEPT ![t] =
                                IF left = {} THEN <<>> ELSE shared_tokens[t]]
        /\ token_lock' = [token_lock EXCEPT ![t] = 0]

\* Mutant: line 82 runs only when the refresh yielded a token.
LeaveRefreshed_StampOnSuccess(t, c1, time, had, outcome) ==
    LET k == server_key[t]
        got == TTL_get(c1, k, <<>>, clock)
    IN  /\ last_refresh' = IF outcome = "some" THEN (k :> time) @@ last_refresh
                                               ELSE last_refresh
        /\ cache' = got.cache
        /\ lock' = 0
        /\ returned' = [caller |-> t, key |-> k, kind |-> "list",
                        value |-> got.value, outcome |-> outcome,
                        never |-> never[t], prev |-> had,
                        saw |-> Saw(threads[t])]
        /\ outcomes' = Logged(k, outcome)
        /\ Unwind(t)

\* Lines 82-84 and the exit of the with block, after _refresh_tokens has
\* returned with the cache c1: record the time taken at line 73, return
\* cache.get(server_key, []) and release the lock.
LeaveRefreshed(t, c1, time, had, outcome) ==
    LET k == server_key[t]
        got == TTL_get(c1, k, <<>>, clock)
    IN  /\ last_refresh' = (k :> time) @@ last_refresh
        /\ cache' = got.cache
        /\ lock' = 0
        /\ returned' = [caller |-> t, key |-> k, kind |-> "list",
                        value |-> got.value, outcome |-> outcome,
                        never |-> never[t], prev |-> had,
                        saw |-> Saw(threads[t])]
        /\ outcomes' = Logged(k, outcome)
        /\ Unwind(t)

\* An exception that leaves _refresh_tokens leaves get_tokens too: the with
\* block releases the lock and line 82 is not reached.
LeaveRaised(t, had) ==
    /\ lock' = 0
    /\ returned' = [caller |-> t, key |-> server_key[t], kind |-> "raised",
                    value |-> <<>>, outcome |-> "raised",
                    never |-> never[t], prev |-> had,
                    saw |-> Saw(threads[t])]
    /\ outcomes' = Logged(server_key[t], "raised")
    /\ Unwind(t)
    /\ UNCHANGED <<cache, last_refresh>>

\* Mutant: the handler stores the empty list whatever the cache holds.
Handler_AlwaysClear(c, k, time) == TTL_setitem(c, k, <<>>, time)

\* Lines 140-143: the handler of _refresh_tokens.
Handler(c, k, time) ==
    IF ~TTL_contains(c, k, time) THEN TTL_setitem(c, k, <<>>, time) ELSE c

\* An error e raised in the try body of _refresh_tokens (lines 87-138).
Critical(t, e, time, had) ==
    IF Caught(e)
    THEN LeaveRefreshed(t, Handler(cache, server_key[t], clock), time, had, "error")
    ELSE LeaveRaised(t, had)

\* Mutant: the else branch of line 136 leaves the entry as it is.
Publish_KeepStale(c, k, shared, time) ==
    LET tokens == <<>> \o shared
    IN  IF tokens # <<>> THEN TTL_setitem(c, k, tokens, time) ELSE c

\* Lines 131-138: publish the collected tokens.
Publish(c, k, shared, time) ==
    LET tokens == <<>> \o shared
    IN  IF tokens # <<>> THEN TTL_setitem(c, k, tokens, time)
                         ELSE TTL_setitem(c, k, <<>>, time)

HadTokens(k) == TTL_contains(cache, k, clock) /\ cache.data[k] # <<>>

\* get_tokens up to the first blocking call (lines 72-81, 88-93, 114-115):
\* take the lock and the time, decide, and either return the cached list or
\* load the credentials and enter the launch loop.  A loaded value that is
\* not iterable raises TypeError at line 115.
Enter(t, source) ==
    /\ pc[t] = "wait"
    /\ LockFree
    /\ LET k == server_key[t]
           loaded == _load_credentials(source)
       IN  IF ~refresh_needed(cache, last_refresh, k, clock)
           THEN LET got == TTL_get(cache, k, <<>>, clock)
                IN  /\ cache' = got.cache
                    /\ returned' = [caller |-> t, key |-> k, kind |-> "list",
                                    value |-> got.value, outcome |-> "none",
                                    never |-> never[t], prev |-> FALSE,
                                    saw |-> {}]
                    /\ pc' = [pc EXCEPT ![t] = "idle"]
                    /\ server_key' = [server_key EXCEPT ![t] = NoKey]
                    /\ never' = [never EXCEPT ![t] = FALSE]
                    /\ UNCHANGED <<last_refresh, lock, now, creds, thread_pool,
                                   all_threads, joined, shared_tokens,
                                   token_lock, threads, prev, outcomes>>
           ELSE IF Iterable(loaded)
           THEN /\ lock' = t
                /\ now' = [now EXCEPT ![t] = clock]
                /\ creds' = [creds EXCEPT ![t] = loaded.users]
                /\ pc' = [pc EXCEPT ![t] =
                            IF loaded.users = <<>> THEN "join" ELSE "launch"]
                /\ prev' = [prev EXCEPT ![t] = HadTokens(k)]
                /\ thread_pool' = [thread_pool EXCEPT ![t] = {}]
                /\ all_threads' = [all_threads EXCEPT ![t] = <<>>]
                /\ joined' = [joined EXCEPT ![t] = 0]
                /\ shared_tokens' = [shared_tokens EXCEPT ![t] = <<>>]
                /\ token_lock' = [token_lock EXCEPT ![t] = 0]
                /\ threads' = [threads EXCEPT ![t] = EmptyFcn]
                /\ UNCHANGED <<cache, last_refresh, server_key, never,
                               returned, outcomes>>
           ELSE Critical(t, "TypeError", clock, HadTokens(k))
    /\ UNCHANGED clock

\* Mutant: a full pool drops its oldest thread, alive or not.
Pruned_OneOut(t) ==
    IF Cardinality(thread_pool[t]) >= batch_size
    THEN thread_pool[t] \ {CHOOSE i \in thread_pool[t] :
                               \A j \in thread_pool[t] : i <= j}
    ELSE thread_pool[t]

\* The launch loop (lines 115-125) for the next credential: when the pool
\* holds batch_size threads it is pruned to the live ones, and the loop
\* sleeps until fewer than batch_size are left; then the thread is started.
Pruned(t) ==
    IF Cardinality(thread_pool[t]) >= batch_size
    THEN {i \in thread_pool[t] : is_alive(threads[t][i])}
    ELSE thread_pool[t]

Launch(t, urls) ==
    /\ pc[t] = "launch"
    /\ Cardinality(Pruned(t)) < batch_size
    /\ LET i == Len(all_threads[t]) + 1
       IN  /\ threads' = [threads EXCEPT ![t] = (i :> NewThread(urls)) @@ @]
           /\ thread_pool' = [thread_pool EXCEPT ![t] = Pruned(t) \cup {i}]
           /\ all_threads' = [all_threads EXCEPT ![t] = Append(@, i)]
           /\ pc' = [pc EXCEPT ![t] =
                       IF i = Len(creds[t]) THEN "join" ELSE "launch"]
    /\ UNCHANGED <<clock, cache, last_refresh, lock, server_key, now, creds,
                   joined, shared_tokens, token_lock, never, prev, returned,
                   outcomes>>

\* thread.start() (line 123) raises RuntimeError when no thread can be
\* started; the threads started before keep running.
LaunchError(t) ==
    /\ pc[t] = "launch"
    /\ Cardinality(Pruned(t)) < batch_size
    /\ Critical(t, "RuntimeError", now[t], prev[t])
    /\ UNCHANGED clock

\* thread.join(timeout=10) (lines 128-129) returns when the thread has ended
\* or when the timeout has passed.
Join(t) ==
    /\ pc[t] = "join"
    /\ joined[t] < Len(all_threads[t])
    /\ joined' = [joined EXCEPT ![t] = @ + 1]
    /\ UNCHANGED <<clock, cache, last_refresh, lock, pc, server_key, now,
                   creds, thread_pool, all_threads, shared_tokens, token_lock,
                   threads, never, prev, returned, outcomes>>

\* Lines 131-138 and 82-84: publish and return.
PublishReturn(t) ==
    /\ pc[t] = "join"
    /\ joined[t] = Len(all_threads[t])
    /\ LeaveRefreshed(t, Publish(cache, server_key[t], shared_tokens[t], clock),
                      now[t], prev[t],
                      IF shared_tokens[t] # <<>> THEN "some" ELSE "zero")
    /\ UNCHANGED clock

\* ------------------------------------------------------------- fetch_token
\* Mutant: a failed attempt ends the loop.
NextAttempt_GiveUp(th) == [th EXCEPT !.st = "done"]

\* The for loop of line 98 after a failed attempt: the next url, or the end.
NextAttempt(th) ==
    IF th.idx < Len(th.urls) THEN [th EXCEPT !.idx = @ + 1]
                             ELSE [th EXCEPT !.st = "done"]

\* A step of thread i of the refresh that caller t runs.
ThreadStep(t, i, th, shared, tl) ==
    /\ threads' = [threads EXCEPT ![t][i] = th]
    /\ shared_tokens' = [shared_tokens EXCEPT ![t] = shared]
    /\ token_lock' = [token_lock EXCEPT ![t] = tl]
    /\ UNCHANGED <<clock, cache, last_refresh, lock, pc, server_key, now,
                   creds, thread_pool, all_threads, joined, never, prev,
                   returned, outcomes>>

\* What one request can bring: a failure (status not 200, exception, no
\* token), no answer ever, or a token.
Answers(i) == {-3, -2} \cup TokensOf(i)
Fail == -3
Hang == -2

\* Lines 99-105 and 110-112: one request to urls[idx].
Request(t, i, answer) ==
    /\ i \in DOMAIN threads[t]
    /\ threads[t][i].st = "run"
    /\ LET th == [threads[t][i] EXCEPT
                        !.tried = Append(@, threads[t][i].urls[threads[t][i].idx])]
       IN  ThreadStep(t, i,
              IF answer = Fail THEN NextAttempt(th)
              ELSE IF answer = Hang THEN [th EXCEPT !.st = "hung"]
              ELSE [th EXCEPT !.st = "got", !.tok = answer],
              shared_tokens[t], token_lock[t])

\* Lines 106-107: take token_lock and test the membership.
Test(t, i) ==
    /\ i \in DOMAIN threads[t]
    /\ threads[t][i].st = "got"
    /\ TokenLockFree(t)
    /\ LET th == threads[t][i]
       IN  ThreadStep(t, i,
              [th EXCEPT !.st = "tested",
                         !.present = th.tok \in Range(shared_tokens[t])],
              shared_tokens[t], i)

\* Mutant: the thread ends without releasing token_lock.
Store_KeepLock(t, i) ==
    /\ i \in DOMAIN threads[t]
    /\ threads[t][i].st = "tested"
    /\ LET th == threads[t][i]
       IN  ThreadStep(t, i,
              [th EXCEPT !.st = "done", !.present = FALSE],
              IF th.present THEN shared_tokens[t]
                            ELSE Append(shared_tokens[t], th.tok),
              token_lock[t])

\* Lines 108-109: append when the token was absent, release token_lock, end.
Store(t, i) ==
    /\ i \in DOMAIN threads[t]
    /\ threads[t][i].st = "tested"
    /\ LET th == threads[t][i]
       IN  ThreadStep(t, i,
              [th EXCEPT !.st = "done", !.present = FALSE],
              IF th.present THEN shared_tokens[t]
                            ELSE Append(shared_tokens[t], th.tok),
              0)

\* Mutant: line 134 stores shared_tokens itself, so the entry and the shared
\* list are one list and an append to one shows in the other.
AfterLate_SameList(c, shared, appended) ==
    [c EXCEPT !.data = [k \in DOMAIN c.data |->
                           IF shared # <<>> /\ c.data[k] = shared
                           THEN appended ELSE c.data[k]]]

\* The cache after a thread left behind has appended to shared_tokens:
\* line 131 copied the shared list into tokens, the list line 134 stored,
\* so the append does not reach the cache.
AfterLate(c, shared, appended) == c

\* Lines 98-112 for a thread left behind by a refresh that has returned: it
\* ends, and a token it obtains goes to the shared list of that refresh.
Late(t, i, answer) ==
    /\ i \in DOMAIN threads[t]
    /\ threads[t][i].st = "left"
    /\ LET rest == DOMAIN threads[t] \ {i}
           shared == IF answer \in TokensOf(i) /\ answer \notin Range(shared_tokens[t])
                     THEN Append(shared_tokens[t], answer)
                     ELSE shared_tokens[t]
       IN  /\ threads' = [threads EXCEPT ![t] = Restrict(threads[t], rest)]
           /\ shared_tokens' = [shared_tokens EXCEPT ![t] =
                                   IF rest = {} THEN <<>> ELSE shared]
           /\ cache' = AfterLate(cache, shared_tokens[t], shared)
    /\ UNCHANGED <<clock, last_refresh, lock, pc, server_key, now,
                   creds, thread_pool, all_threads, joined, token_lock, never,
                   prev, returned, outcomes>>

\* --------------------------------------------------------- specifications
\* Several callers, more keys than maxsize, a short time.
Next ==
    \/ Tick(ShortInstants)
    \/ \E t \in Callers, k \in Keys : Call(t, k)
    \/ \E t \in Callers, s \in ConfigSources(MaxCreds) : Enter(t, s)
    \/ \E t \in Callers : Launch(t, AUTH_URLS)
    \/ \E t \in Callers : LaunchError(t)
    \/ \E t \in Callers : Join(t)
    \/ \E t \in Callers : PublishReturn(t)
    \/ \E t \in Callers, i \in 1..MaxCreds : \E a \in Answers(i) : Request(t, i, a)
    \/ \E t \in Callers, i \in 1..MaxCreds : Test(t, i)
    \/ \E t \in Callers, i \in 1..MaxCreds : Store(t, i)
    \/ \E t \in Callers, i \in 1..MaxCreds : \E a \in Answers(i) : Late(t, i, a)

Spec == Init /\ [][Next]_vars

\* One caller, more keys than maxsize, time beyond the TTL.
NextTime ==
    \/ Tick(Instants)
    \/ \E k \in Keys : Call(1, k)
    \/ \E s \in ConfigSources(MaxCreds) : Enter(1, s)
    \/ Launch(1, AUTH_URLS)
    \/ LaunchError(1)
    \/ Join(1)
    \/ PublishReturn(1)
    \/ \E i \in 1..MaxCreds : \E a \in Answers(i) : Request(1, i, a)
    \/ \E i \in 1..MaxCreds : Test(1, i)
    \/ \E i \in 1..MaxCreds : Store(1, i)
    \/ \E i \in 1..MaxCreds : \E a \in Answers(i) : Late(1, i, a)

SpecTime == Init /\ [][NextTime]_vars

\* One refresh of more credentials than batch_size.
NextBatch ==
    \/ \E k \in BatchKeys : Call(1, k)
    \/ \E s \in ConfigSources(MaxBatchCreds) : Enter(1, s)
    \/ Launch(1, AUTH_URLS)
    \/ LaunchError(1)
    \/ Join(1)
    \/ PublishReturn(1)
    \/ \E i \in 1..MaxBatchCreds : \E a \in Answers(i) : Request(1, i, a)
    \/ \E i \in 1..MaxBatchCreds : Test(1, i)
    \/ \E i \in 1..MaxBatchCreds : Store(1, i)
    \/ \E i \in 1..MaxBatchCreds : \E a \in Answers(i) : Late(1, i, a)

SpecBatch == Init /\ [][NextBatch]_vars

\* One refresh of few credentials, every order of the urls.
NextFetch ==
    \/ \E k \in BatchKeys : Call(1, k)
    \/ \E s \in ConfigSources(MaxCreds) : Enter(1, s)
    \/ \E urls \in random_sample : Launch(1, urls)
    \/ LaunchError(1)
    \/ Join(1)
    \/ PublishReturn(1)
    \/ \E i \in 1..MaxCreds : \E a \in Answers(i) : Request(1, i, a)
    \/ \E i \in 1..MaxCreds : Test(1, i)
    \/ \E i \in 1..MaxCreds : Store(1, i)
    \/ \E i \in 1..MaxCreds : \E a \in Answers(i) : Late(1, i, a)

SpecFetch == Init /\ [][NextFetch]_vars

\* One caller, a cache for several entries and more keys than it holds.
NextKeys ==
    \/ \E k \in MoreKeys : Call(1, k)
    \/ \E s \in ConfigSources(MaxCreds) : Enter(1, s)
    \/ Launch(1, AUTH_URLS)
    \/ LaunchError(1)
    \/ Join(1)
    \/ PublishReturn(1)
    \/ \E i \in 1..MaxCreds : \E a \in Answers(i) : Request(1, i, a)
    \/ \E i \in 1..MaxCreds : Test(1, i)
    \/ \E i \in 1..MaxCreds : Store(1, i)
    \/ \E i \in 1..MaxCreds : \E a \in Answers(i) : Late(1, i, a)

SpecKeys == InitWith(RoomyCache) /\ [][NextKeys]_vars

\* Several callers of one key, refreshes of several credentials.
NextLocks ==
    \/ \E t \in Callers, k \in BatchKeys : Call(t, k)
    \/ \E t \in Callers, s \in ConfigSources(MaxLockCreds) : Enter(t, s)
    \/ \E t \in Callers : Launch(t, AUTH_URLS)
    \/ \E t \in Callers : LaunchError(t)
    \/ \E t \in Callers : Join(t)
    \/ \E t \in Callers : PublishReturn(t)
    \/ \E t \in Callers, i \in 1..MaxLockCreds :
          \E a \in Answers(i) : Request(t, i, a)
    \/ \E t \in Callers, i \in 1..MaxLockCreds : Test(t, i)
    \/ \E t \in Callers, i \in 1..MaxLockCreds : Store(t, i)
    \/ \E t \in Callers, i \in 1..MaxLockCreds :
          \E a \in Answers(i) : Late(t, i, a)

SpecLocks == Init /\ [][NextLocks]_vars

\* ------------------------------------------------------------------ claims
\* The step by which caller t leaves the wait for the lock: its decision.
Decides(t) == pc[t] = "wait" /\ pc'[t] # "wait"

\* The step by which the get_tokens call of caller t returns.
Returns(t) == pc[t] # "idle" /\ pc'[t] = "idle"

\* Key k was refreshed within the last TOKEN_REFRESH_THRESHOLD.
Fresh(k) ==
    k \in DOMAIN last_refresh
        /\ clock - last_refresh[k] <= TOKEN_REFRESH_THRESHOLD

\* The decision of caller t starts no refresh: it returns at once, loads no
\* credentials and starts no thread.
ServedFromCache(t) ==
    /\ pc'[t] = "idle"
    /\ returned'.outcome = "none"
    /\ last_refresh' = last_refresh
    /\ threads' = threads
    /\ creds' = creds

\* C1: at most one _refresh_tokens is in progress at any time, and the
\* caller that runs it holds the cache lock from its decision to its
\* publication, so no other call decides or replaces an entry in between.
C1_OneRefreshAtATime ==
    /\ Cardinality({t \in Callers : InRefresh(t)}) <= 1
    /\ \A t \in Callers : InRefresh(t) => lock = t

\* A refresh with a thread at work while another caller waits for the lock.
C1_Witness ==
    \E t, u \in Callers :
        /\ t # u
        /\ InRefresh(t)
        /\ Working(threads[t]) # {}
        /\ pc[u] = "wait"

\* C2: a refresh is never held up by threads that never end: when the launch
\* loop waits for room in the pool, some thread of the pool can still end.
C2_HungThreadsNeverBlock ==
    \A t \in Callers :
        (pc[t] = "launch" /\ Cardinality(Pruned(t)) >= batch_size)
            => \E i \in Pruned(t) : threads[t][i].st # "hung"

\* C3: a get_tokens call for a key refreshed within the threshold returns
\* the cached list and starts no refresh.
C3_FreshKeyServedFromCache ==
    [][\A t \in Callers :
          (Decides(t) /\ Fresh(server_key[t])) => ServedFromCache(t)]_vars

\* C3, amended: a get_tokens call for a key refreshed within the threshold
\* whose entry is still in the cache returns the cached list and starts no
\* refresh.
C3_FreshCachedKeyServedFromCache ==
    [][\A t \in Callers :
          (/\ Decides(t)
           /\ Fresh(server_key[t])
           /\ TTL_contains(cache, server_key[t], clock))
          => (/\ ServedFromCache(t)
              /\ returned'.value = cache.data[server_key[t]])]_vars

\* A call made exactly TOKEN_REFRESH_THRESHOLD after the refresh of its key
\* has returned the cached list without a refresh.
C3_Witness ==
    /\ returned.kind = "list"
    /\ returned.outcome = "none"
    /\ clock - last_refresh[returned.key] = TOKEN_REFRESH_THRESHOLD

\* C4: a call for a key never refreshed runs a refresh, and a caller that
\* called for a key never refreshed and finds it refreshed by another call
\* when it gets the lock runs no refresh and returns the published list.
C4_OneRefreshForNewKey ==
    [][\A t \in Callers :
          Decides(t) =>
              /\ server_key[t] \notin DOMAIN last_refresh
                    => (InRefresh(t)' \/ returned'.outcome # "none")
              /\ (never[t] /\ server_key[t] \in DOMAIN last_refresh)
                    => ServedFromCache(t)]_vars

\* C4, amended: as C4, for the caller that finds the entry still in the
\* cache and the refresh begun within the threshold.
C4_OneRefreshForNewKeyWhileCached ==
    [][\A t \in Callers :
          Decides(t) =>
              /\ server_key[t] \notin DOMAIN last_refresh
                    => (InRefresh(t)' \/ returned'.outcome # "none")
              /\ (/\ never[t]
                  /\ Fresh(server_key[t])
                  /\ TTL_contains(cache, server_key[t], clock))
                    => (/\ ServedFromCache(t)
                        /\ returned'.value = cache.data[server_key[t]])]_vars

\* A call made for a key never refreshed has returned without a refresh:
\* another call refreshed the key while it waited for the lock.
C4_Witness ==
    /\ returned.kind = "list"
    /\ returned.never
    /\ returned.outcome = "none"
    /\ returned.key \in DOMAIN last_refresh

\* C5: no list stored in the cache, and no list returned, holds a token
\* twice.
C5_NoDuplicateTokens ==
    /\ \A k \in DOMAIN cache.data : NoDup(cache.data[k])
    /\ NoDup(returned.value)

\* A refresh in which two threads obtained the same token has published.
C5_Witness ==
    /\ returned.outcome = "some"
    /\ "same" \in returned.saw
    /\ TTL_contains(cache, returned.key, clock)
    /\ cache.data[returned.key] = returned.value

\* C6: no get_tokens call ends with an exception, and a caller that is not
\* inside get_tokens' with block does not hold the cache lock.
C6_NoFailureSurfaces ==
    /\ returned.kind # "raised"
    /\ \A t \in Callers : pc[t] \in {"idle", "wait"} => lock # t

\* A call whose refresh ran into the handler has returned a list, and the
\* lock is free.
C6_Witness ==
    /\ returned.kind = "list"
    /\ returned.outcome = "error"
    /\ lock = 0

\* C7: when every thread has ended before the refresh publishes, the entry
\* holds exactly the tokens the threads obtained, each once, and a thread
\* without a token has tried every endpoint.
C7_PublishedEqualsObtained ==
    [][\A t \in Callers :
          (/\ pc[t] = "join"
           /\ Returns(t)
           /\ DOMAIN threads[t] = 1..Len(creds[t])
           /\ \A i \in DOMAIN threads[t] : threads[t][i].st = "done")
          => LET k == server_key[t]
                 got == {threads[t][i].tok :
                            i \in {j \in DOMAIN threads[t] :
                                      threads[t][j].tok # NoTok}}
             IN  /\ TTL_contains(cache', k, clock)
                 /\ Range(cache'.data[k]) = got
                 /\ Len(cache'.data[k]) = Cardinality(got)
                 /\ returned'.value = cache'.data[k]
                 /\ \A i \in DOMAIN threads[t] :
                        threads[t][i].tok = NoTok
                            => threads[t][i].idx = Len(AUTH_URLS)]_vars

\* A refresh of more credentials than batch_size has published, all its
\* threads ended, one after a failover and one without a token.
C7_Witness ==
    /\ returned.outcome = "some"
    /\ {"batches", "failover", "exhausted"} \subseteq returned.saw
    /\ "unfinished" \notin returned.saw
    /\ Len(returned.value) >= batch_size

\* C8: every call that ran a refresh leaves last_refresh[key] at the time it
\* took, and a call for a key whose last refresh, within the threshold,
\* yielded no token returns the empty list and starts no refresh.
C8_EmptyRefreshNotRetried ==
    [][\A t \in Callers :
          /\ (Returns(t) /\ returned'.outcome # "none")
                => /\ server_key[t] \in DOMAIN last_refresh'
                   /\ last_refresh'[server_key[t]] =
                          (IF pc[t] = "wait" THEN clock ELSE now[t])
          /\ (/\ Decides(t)
              /\ Fresh(server_key[t])
              /\ outcomes[server_key[t]].last = "zero")
                => (ServedFromCache(t) /\ returned'.value = <<>>)]_vars

\* C8, amended: as C8, for the key whose empty entry is still in the cache.
C8_EmptyRefreshNotRetriedWhileCached ==
    [][\A t \in Callers :
          /\ (Returns(t) /\ returned'.outcome # "none")
                => /\ server_key[t] \in DOMAIN last_refresh'
                   /\ last_refresh'[server_key[t]] =
                          (IF pc[t] = "wait" THEN clock ELSE now[t])
          /\ (/\ Decides(t)
              /\ Fresh(server_key[t])
              /\ outcomes[server_key[t]].last = "zero"
              /\ TTL_contains(cache, server_key[t], clock))
                => (ServedFromCache(t) /\ returned'.value = <<>>)]_vars

\* A call made after a refresh that yielded no token, and later than it,
\* has returned the empty list without a refresh.
C8_Witness ==
    /\ returned.kind = "list"
    /\ returned.outcome = "none"
    /\ returned.value = <<>>
    /\ outcomes[returned.key].last = "zero"
    /\ clock > last_refresh[returned.key]

\* C9: a refresh that publishes with no token collected sets the entry of
\* the key to the empty list, and the call returns the empty list.
C9_EmptyRefreshClearsEntry ==
    [][\A t \in Callers :
          (pc[t] = "join" /\ Returns(t) /\ shared_tokens[t] = <<>>)
          => /\ TTL_contains(cache', server_key[t], clock)
             /\ cache'.data[server_key[t]] = <<>>
             /\ returned'.value = <<>>]_vars

\* A refresh that began with a non-empty list cached has yielded no token,
\* and the entry is empty.
C9_Witness ==
    /\ returned.outcome = "zero"
    /\ returned.prev
    /\ returned.value = <<>>
    /\ TTL_contains(cache, returned.key, clock)
    /\ cache.data[returned.key] = <<>>

\* C10: a call for a key whose every refresh so far yielded a token returns
\* a non-empty list.
C10_NeverEmptyWhenRefreshesSucceed ==
    (/\ returned.kind = "list"
     /\ returned.key \in DOMAIN outcomes => outcomes[returned.key].clean)
        => returned.value # <<>>

\* A call past the TTL of the first entry has refreshed a key whose list was
\* still cached, and returned tokens.
C10_Witness ==
    /\ returned.kind = "list"
    /\ returned.outcome = "some"
    /\ returned.prev
    /\ returned.value # <<>>
    /\ outcomes[returned.key].clean
    /\ clock >= CACHE_DURATION

\* C11: an error raised while _refresh_tokens orchestrates the refresh is
\* caught there, so the call returns a list; the entry of the key is the
\* empty list when the cache held none, and is the entry the cache held,
\* with its tokens and its expiry, when it held one.
C11_CriticalErrorKeepsOrClears ==
    [][\A t \in Callers :
          (Returns(t) /\ returned'.outcome \in {"error", "raised"})
          => LET k == server_key[t]
             IN  /\ returned'.kind = "list"
                 /\ k \in DOMAIN cache'.data
                 /\ IF TTL_contains(cache, k, clock)
                    THEN /\ cache'.data[k] = cache.data[k]
                         /\ cache'.expires[k] = cache.expires[k]
                    ELSE cache'.data[k] = <<>>]_vars

\* A refresh that hit an error has returned the tokens of an earlier
\* refresh, from an entry it found in the cache.
C11_Witness ==
    /\ returned.outcome = "error"
    /\ returned.prev
    /\ returned.value # <<>>
    /\ clock >= TOKEN_REFRESH_THRESHOLD

\* C12: a get_tokens call for which no refresh is due returns the list the
\* cache holds for the key, leaves every entry of the cache (tokens and
\* expiry) and last_refresh as they were, and starts no thread; so a
\* second such call made at once finds the same entry and returns the
\* same list.
C12_NoRefreshCallChangesNothing ==
    [][\A t \in Callers :
          (Decides(t)
             /\ ~refresh_needed(cache, last_refresh, server_key[t], clock))
          => /\ ServedFromCache(t)
             /\ cache'.data = cache.data
             /\ cache'.expires = cache.expires
             /\ returned'.value = cache'.data[server_key[t]]
             /\ ~refresh_needed(cache', last_refresh', server_key[t], clock')]_vars

\* A call has returned a non-empty list without a refresh, and the entry is
\* still in the cache.
C12_Witness ==
    /\ returned.kind = "list"
    /\ returned.outcome = "none"
    /\ returned.value # <<>>
    /\ TTL_contains(cache, returned.key, clock)
    /\ cache.data[returned.key] = returned.value

AliveThreads(t) == {i \in DOMAIN threads[t] : is_alive(threads[t][i])}

\* C14: while a refresh runs, at most batch_size of the threads it has
\* started are alive, and a thread is started only when fewer than
\* batch_size of those started before are alive.
C14_AtMostBatchSizeAlive ==
    \A t \in Callers :
        InRefresh(t) =>
            /\ Cardinality(AliveThreads(t)) <= batch_size
            /\ AliveThreads(t) \subseteq thread_pool[t]
            /\ Cardinality(thread_pool[t]) <= batch_size

\* The launch loop has started more threads than batch_size, after it had
\* to wait for one of a full pool to end, and batch_size are alive again.
C14_Witness ==
    \E t \in Callers :
        /\ InRefresh(t)
        /\ Len(all_threads[t]) > batch_size
        /\ Cardinality(AliveThreads(t)) = batch_size

\* C15: the token list of an entry changes only by the step in which a
\* refresh of its key publishes and returns (the collected tokens, or the
\* empty list of the error handler); no other step, and so no thread left
\* behind that ends later, changes the list of an entry that stays in the
\* cache.
C15_PublishedEntryNotMutated ==
    [][\A k \in DOMAIN cache.data \cap DOMAIN cache'.data :
          cache'.data[k] # cache.data[k]
          => \E t \in Callers :
                /\ Returns(t)
                /\ server_key[t] = k
                /\ returned'.outcome \in {"some", "zero", "error"}
                /\ cache'.data[k] = IF returned'.outcome = "error"
                                    THEN <<>> ELSE shared_tokens[t]]_vars

\* A refresh has published tokens and returned, and a thread it left behind
\* has since appended one more token to the shared list of that refresh.
C15_Witness ==
    \E t \in Callers, k \in DOMAIN cache.data :
        /\ pc[t] = "idle"
        /\ cache.data[k] # <<>>
        /\ Len(shared_tokens[t]) > Len(cache.data[k])
        /\ SubSeq(shared_tokens[t], 1, Len(cache.data[k])) = cache.data[k]

\* What holds of a thread th that runs fetch_token, at any moment.
FetchOrder(th) ==
    /\ Len(th.urls) = Len(AUTH_URLS)
    /\ Range(th.urls) = Range(AUTH_URLS)
    /\ NoDup(th.tried)
    /\ th.tried = SubSeq(th.urls, 1, Len(th.tried))
    /\ th.tok # NoTok => th.st \in {"got", "tested", "done"}
    /\ (th.st = "done" /\ th.tok = NoTok) => Len(th.tried) = Len(AUTH_URLS)

\* What holds of a step from th to th1 of a thread that runs fetch_token.
FetchStep(th, th1) ==
    /\ (th.st = "run" /\ th1.tok # NoTok) => th1.st = "got"
    /\ (th.st = "run" /\ th1.tried # th.tried /\ th1.tok = NoTok
           /\ th1.st # "hung")
         => IF Len(th1.tried) < Len(AUTH_URLS)
            THEN th1.st = "run" /\ th1.idx = th.idx + 1
            ELSE th1.st = "done"
    /\ th.st \in {"got", "tested", "done"} => th1.tried = th.tried

\* C16: the urls of a fetch_token run are a permutation of AUTH_URLS and
\* are requested in that order, each at most once; a token ends the
\* requests, a failure moves to the next url, and the run ends without a
\* token only when every url has been requested.
C16_EndpointsTriedInOrder ==
    [][\A t \in Callers : \A i \in DOMAIN threads'[t] :
          threads'[t][i].st # "left"
          => /\ FetchOrder(threads'[t][i])
             /\ i \in DOMAIN threads[t]
                  => FetchStep(threads[t][i], threads'[t][i])]_vars

\* A thread has ended with a token from the second url of an order that is
\* not the order of AUTH_URLS.
C16_Witness ==
    \E t \in Callers : \E i \in DOMAIN threads[t] :
        /\ threads[t][i].st = "done"
        /\ threads[t][i].tok # NoTok
        /\ Len(threads[t][i].tried) = 2
        /\ threads[t][i].urls[1] # AUTH_URLS[1]

\* C17: a key keeps its place in last_refresh, and every write to
\* last_refresh[key] stores a time not earlier than the one it replaces.
C17_LastRefreshOnlyAdvances ==
    [][\A k \in DOMAIN last_refresh :
          /\ k \in DOMAIN last_refresh'
          /\ last_refresh'[k] >= last_refresh[k]]_vars

\* A second refresh of a key has returned and has stored a later time than
\* the first.
C17_Witness ==
    /\ returned.outcome \in {"some", "zero", "error"}
    /\ ~returned.never
    /\ last_refresh[returned.key] > 0

\* The step by which caller t returns from a get_tokens call that ran a
\* refresh.
ReturnsRefreshed(t) == Returns(t) /\ returned'.outcome # "none"

\* The step leaves last_refresh of key j as it was.
SameStamp(j) ==
    /\ j \in DOMAIN last_refresh <=> j \in DOMAIN last_refresh'
    /\ j \in DOMAIN last_refresh => last_refresh'[j] = last_refresh[j]

\* C18: a refresh of one key leaves last_refresh of every other key as it
\* was, and leaves every other key's live entry in the cache, with its
\* tokens and its expiry.
C18_RefreshLeavesOtherKeys ==
    [][\A t \in Callers :
          ReturnsRefreshed(t)
          => \A j \in MoreKeys \ {server_key[t]} :
                /\ SameStamp(j)
                /\ TTL_contains(cache, j, clock)
                     => /\ j \in DOMAIN cache'.data
                        /\ cache'.data[j] = cache.data[j]
                        /\ cache'.expires[j] = cache.expires[j]]_vars

\* C18, amended: a refresh of one key leaves last_refresh of every other
\* key as it was and changes neither the tokens nor the expiry of another
\* key's entry; it removes a live entry of another key only when the key
\* refreshed has no live entry and the cache holds maxsize live entries,
\* and the entry removed is then the least recently used one.  The steps of
\* a refresh before its return change neither cache nor last_refresh.
C18_RefreshOnlyEvictsOtherKeys ==
    [][\A t \in Callers :
          /\ (InRefresh(t) /\ ~Returns(t))
               => (cache' = cache /\ last_refresh' = last_refresh)
          /\ ReturnsRefreshed(t)
               => LET live == TTL_expire(cache, clock)
                  IN  \A j \in MoreKeys \ {server_key[t]} :
                         /\ SameStamp(j)
                         /\ j \in DOMAIN cache'.data
                              => /\ j \in DOMAIN cache.data
                                 /\ cache'.data[j] = cache.data[j]
                                 /\ cache'.expires[j] = cache.expires[j]
                         /\ (j \in DOMAIN live.data /\ j \notin DOMAIN cache'.data)
                              => /\ server_key[t] \notin DOMAIN live.data
                                 /\ Len(live.links) = live.maxsize
                                 /\ j = Head(live.links)]_vars

\* A refresh has returned while the cache holds its entry and the entry of
\* another key, and a third key refreshed earlier has lost its entry.
C18_Witness ==
    /\ returned.outcome \in {"some", "zero", "error"}
    /\ Cardinality(DOMAIN cache.data) = cache.maxsize
    /\ cache.maxsize > 1
    /\ returned.key \in DOMAIN cache.data
    /\ \E j \in DOMAIN last_refresh : j \notin DOMAIN cache.data

\* The callers that wait for the cache lock, and the threads of the refresh
\* of caller t that wait for token_lock.
WaitsForLock == {t \in Callers : pc[t] = "wait" /\ lock # 0}
WaitsForTokenLock(t) ==
    {i \in DOMAIN threads[t] : threads[t][i].st = "got" /\ token_lock[t] # 0}

\* C19: the cache lock is held by a caller inside its refresh, never by a
\* caller that waits for it; token_lock is held by a thread between its
\* membership test and its append, which waits for nothing; so whenever a
\* caller or a thread waits for a lock, the holder of that lock can take a
\* step, and the caller that runs the refresh waits for no lock.
C19_LocksNeverDeadlock ==
    /\ lock # 0 => (lock \in Callers /\ InRefresh(lock))
    /\ \A t \in Callers : (lock = 0 => ~InRefresh(t))
    /\ \A t \in Callers :
          token_lock[t] # 0
          => /\ token_lock[t] \in DOMAIN threads[t]
             /\ threads[t][token_lock[t]].st = "tested"
             /\ lock = t
    /\ \A t \in WaitsForLock : lock # t
    /\ \A t \in Callers : \A i \in WaitsForTokenLock(t) : token_lock[t] # i

\* A caller waits for the cache lock while the caller that holds it joins
\* its threads, of which one holds token_lock and another waits for it.
C19_Witness ==
    \E t \in Callers :
        /\ lock = t
        /\ pc[t] = "join"
        /\ WaitsForLock # {}
        /\ WaitsForTokenLock(t) # {}
====
